---------------------------- MODULE Spec2Model ----------------------------
(***************************************************************************)
(* Patient-monitoring dashboard (streamlit_app.py).                        *)
(*                                                                         *)
(* The script is a linear pipeline that the host re-executes from top to   *)
(* bottom on every interaction: generate_test_data(100) -> read the three  *)
(* sidebar widgets -> filter -> summary metrics.                           *)
(*                                                                         *)
(* Conventions of the model                                                *)
(*   - The Russian labels of the source are written in English, as the     *)
(*     specification names them: "Stable" / "Needs Attention" /            *)
(*     "Critical", "Cardiology" ... "Intensive Care", "M" / "F".           *)
(*   - Temperatures are integers in tenths of a degree (38.0 -> 380).      *)
(*   - Dates are proleptic Gregorian ordinals (datetime.toordinal()); the  *)
(*     time of day of datetime.now() is dropped: the script only uses      *)
(*     whole-day differences and the %d.%m.%Y rendering.                   *)
(*   - np.random.seed(42) fixes the stream of variates the generator       *)
(*     reads.  The stream is the variable `tape`, chosen once in Init and  *)
(*     never changed: tape[i] holds the variates that the call sites of    *)
(*     generate_test_data consume for patient i.  A variate is a decile    *)
(*     0..9 of the unit interval, and every numpy distribution below is    *)
(*     its quantile function on deciles.                                   *)
(***************************************************************************)
EXTENDS Integers, Sequences, FiniteSets, TLC

VARIABLES
    clock,                 \* the wall clock: the date datetime.now() returns
    n_patients,            \* the argument of generate_test_data
    tape,                  \* the variates the seeded generator produces
    today,                 \* `today` of the last generate_test_data call (0: none yet)
    df,                    \* the table of the last call / of the last script run
    error,                 \* the exception that ended the last call or run, or "none"
    selected_departments,  \* value of the department multiselect
    selected_statuses,     \* value of the status multiselect
    age_range,             \* value of the age slider, <<lo, hi>>
    filtered_df,           \* the filtered table of the last script run
    metrics                \* the six summary indicators of the last script run

vars == <<clock, n_patients, tape, today, df, error, selected_departments,
          selected_statuses, age_range, filtered_df, metrics>>

\* ------------------------------------------------------------------ bounds

\* Largest patient count explored (the shipped script passes 100).
MaxPatients == 2

\* Number of midnights the wall clock may pass.
MaxDay == 1

\* The date of the first clock reading: 1 January 2026, so that admission
\* dates fall in the previous month and year.
FirstDays == {739617}

\* ------------------------------------------------------- Python / pandas

\* int(x) and ndarray.astype(int) truncate toward zero: num / den truncated.
TruncDiv(num, den) ==
    IF num >= 0 THEN num \div den ELSE 0 - ((0 - num) \div den)

\* f"{i:0{width}d}" for i >= 0 and width <= 4.
ZeroPad(i, width) ==
    LET digits == IF i < 10 THEN 1 ELSE IF i < 100 THEN 2 ELSE IF i < 1000 THEN 3 ELSE 4
        zeros == <<"", "0", "00", "000">>
    IN  IF digits >= width THEN ToString(i)
        ELSE zeros[width - digits + 1] \o ToString(i)

DaysBeforeMonth == <<0, 31, 59, 90, 120, 151, 181, 212, 243, 273, 304, 334>>
DaysInMonth == <<31, 28, 31, 30, 31, 30, 31, 31, 30, 31, 30, 31>>

\* datetime._ord2ymd: ordinal -> <<year, month, day>>.
ord2ymd(ordinal) ==
    LET n0 == ordinal - 1
        n400 == n0 \div 146097
        r400 == n0 % 146097
        n100 == r400 \div 36524
        r100 == r400 % 36524
        n4 == r100 \div 1461
        r4 == r100 % 1461
        n1 == r4 \div 365
        n == r4 % 365
        year == n400 * 400 + 1 + n100 * 100 + n4 * 4 + n1
        leapyear == n1 = 3 /\ (n4 # 24 \/ n100 = 3)
        month0 == (n + 50) \div 32
        prec0 == DaysBeforeMonth[month0] + (IF month0 > 2 /\ leapyear THEN 1 ELSE 0)
        month == IF prec0 > n THEN month0 - 1 ELSE month0
        preceding ==
            IF prec0 > n
            THEN prec0 - (DaysInMonth[month] + (IF month = 2 /\ leapyear THEN 1 ELSE 0))
            ELSE prec0
    IN  IF n1 = 4 \/ n100 = 4 THEN <<year - 1, 12, 31>>
        ELSE <<year, month, n - preceding + 1>>

\* Series.dt.strftime('%d.%m.%Y') of one date.
strftime(ordinal) ==
    LET ymd == ord2ymd(ordinal)
    IN  ZeroPad(ymd[3], 2) \o "." \o ZeroPad(ymd[2], 2) \o "." \o ZeroPad(ymd[1], 4)

\* ---------------------------------------------------- numpy distributions

\* np.random.randint(low, high): an integer of [low, high); decile 0 gives
\* low and decile 9 gives high - 1.
randint(low, high, u) == low + (u * (high - 1 - low)) \div 9

\* np.random.choice(a): uniform over the list a.
choice(a, u) == a[1 + (u * Len(a)) \div 10]

\* np.random.choice(a, p=p) for three values, p in tenths.
choice_p(a, p, u) ==
    IF u < p[1] THEN a[1] ELSE IF u < p[1] + p[2] THEN a[2] ELSE a[3]

\* np.random.normal(mu, sigma), in quarters of the unit of mu and sigma: the
\* deciles are spread over mu -/+ 2.25 sigma.
normal4(mu, sigma, u) == 4 * mu + sigma * (2 * u - 9)

\* ndarray.astype(int) of a value given in quarters.
astype_int(q) == TruncDiv(q, 4)

\* ndarray.round(1) of a temperature given in quarters of a tenth
\* (round half to even).
round1(q) ==
    LET f == q \div 4
        r == q % 4
    IN  IF r < 2 THEN f
        ELSE IF r > 2 THEN f + 1
        ELSE IF f % 2 = 0 THEN f ELSE f + 1

\* round(np.random.uniform(low, high), 1) in tenths: a value of
\* [low, high]; decile 9 rounds up to high.
round_uniform(low, high, u) == low + (u * (high - low)) \div 9

\* np.random.random() < 0.5
coin(u) == u < 5

\* ------------------------------------------------------- the variate tape

Genders == <<"M", "F">>
Departments == <<"Cardiology", "Neurology", "Surgery", "Therapy", "Intensive Care">>
Statuses == <<"Stable", "Needs Attention", "Critical">>
\* p=[0.7, 0.2, 0.1] in tenths.
StatusWeights == <<7, 2, 1>>

sample_status(u) == choice_p(Statuses, StatusWeights, u)

\* The variates the loop of generate_test_data consumes for one patient, in
\* the order it draws them: seven for a Critical patient (heart rate, coin,
\* systolic, coin, diastolic, temperature, oxygen), five for a Needs
\* Attention patient, none for a Stable one.  Value draws share one decile
\* of `values`; the two coins are free.
LoopDraws(status, values, coins) ==
    IF status = "Critical"
    THEN {<<u, c1, u, c2, u, u, u>> : u \in values, c1 \in coins, c2 \in coins}
    ELSE IF status = "Needs Attention"
    THEN {<<u, u, u, u, u>> : u \in values}
    ELSE {<<>>}

\* The variates of one patient: one per array draw (age, gender, department,
\* admission offset, status, and the five baseline normals, which share the
\* decile b), then those of the loop.
Draw(a, g, d, k, s, b, loop) ==
    [age |-> a, gender |-> g, department |-> d, days |-> k, status |-> s,
     heart_rate |-> b, systolic |-> b, diastolic |-> b, temperature |-> b,
     oxygen_level |-> b, loop |-> loop]

\* Variates of one patient explored for the generator on its own: both ends
\* of every range, every status, both outcomes of both coins.
GenRowDraws ==
    UNION {{Draw(a, a, a, a, s, a, loop) :
                loop \in LoopDraws(sample_status(s), {0, 9}, {0, 9})} :
           a \in {0, 9}, s \in {0, 7, 9}}

\* Variates of one patient explored for the dashboard: a Stable patient of
\* either age in either department, and a Needs Attention and a Critical
\* patient in two of the four combinations each; the vitals are mid-range.
SessionRowDraws ==
    UNION {{Draw(c[1], c[1], c[2], c[2], c[3], 4, loop) :
                loop \in LoopDraws(sample_status(c[3]), {0}, {0})} :
           c \in {<<0, 0, 0>>, <<0, 9, 0>>, <<9, 0, 0>>, <<9, 9, 0>>,
                  <<0, 0, 7>>, <<9, 9, 7>>, <<0, 9, 9>>, <<9, 0, 9>>}}

\* The tapes of n patients over a set of per-patient variates.
Tapes(n, rows) == IF n <= 0 THEN {<<>>} ELSE [1..n -> rows]

\* ---------------------------------------------------- generate_test_data

patient_id(i) == "P" \o ZeroPad(i, 4)

sample_age(u) == randint(18, 91, u)

admission_offset_zero(u) == randint(0, 31, u)

admission_offset_unseeded(u) == randint(1, 31, (u + clock) % 10)

\* The argument of timedelta(days=...) for one admission date.
admission_offset(u) == randint(1, 31, u)

\* Baseline vitals: the five normal draws of one patient.
baseline_vitals(d) ==
    [heart_rate   |-> astype_int(normal4(75, 15, d.heart_rate)),
     systolic     |-> astype_int(normal4(120, 20, d.systolic)),
     diastolic    |-> astype_int(normal4(80, 10, d.diastolic)),
     temperature  |-> round1(normal4(366, 8, d.temperature)),
     oxygen_level |-> astype_int(normal4(97, 3, d.oxygen_level))]

critical_oxygen_inclusive(u) == randint(80, 93, u)

critical_oxygen(u) == randint(80, 92, u)

\* The overwrite of a Critical patient's vitals.
critical_vitals(loop) ==
    [heart_rate   |-> randint(100, 140, loop[1]),
     systolic     |-> IF coin(loop[2]) THEN randint(90, 110, loop[3])
                      ELSE randint(160, 200, loop[3]),
     diastolic    |-> IF coin(loop[4]) THEN randint(50, 70, loop[5])
                      ELSE randint(100, 120, loop[5]),
     temperature  |-> round_uniform(380, 400, loop[6]),
     oxygen_level |-> critical_oxygen(loop[7])]

attention_temperature_wide(u) == round_uniform(370, 385, u)

attention_temperature(u) == round_uniform(370, 380, u)

\* The overwrite of a Needs Attention patient's vitals.
attention_vitals(loop) ==
    [heart_rate   |-> randint(90, 110, loop[1]),
     systolic     |-> randint(110, 150, loop[2]),
     diastolic    |-> randint(70, 95, loop[3]),
     temperature  |-> attention_temperature(loop[4]),
     oxygen_level |-> randint(92, 96, loop[5])]

\* One iteration of the overwrite loop.
final_vitals(status, d) ==
    IF status = "Critical" THEN critical_vitals(d.loop)
    ELSE IF status = "Needs Attention" THEN attention_vitals(d.loop)
    ELSE baseline_vitals(d)

\* (today - date).days
length_of_stay(now, date) == now - date

\* Series.astype(str) + '/' + Series.astype(str)
blood_pressure(sys, dia) == ToString(sys) \o "/" \o ToString(dia)

\* Row i of the returned table.
patient_record(i, d, now) ==
    LET status == sample_status(d.status)
        v == final_vitals(status, d)
        date == now - admission_offset(d.days)
    IN  [patient_id     |-> patient_id(i),
         age            |-> sample_age(d.age),
         gender         |-> choice(Genders, d.gender),
         department     |-> choice(Departments, d.department),
         admission_date |-> strftime(date),
         status         |-> status,
         heart_rate     |-> v.heart_rate,
         systolic       |-> v.systolic,
         diastolic      |-> v.diastolic,
         temperature    |-> v.temperature,
         oxygen_level   |-> v.oxygen_level,
         blood_pressure |-> blood_pressure(v.systolic, v.diastolic),
         length_of_stay |-> length_of_stay(now, date)]

\* pandas infers datetime64 for a column built from a non-empty list of
\* datetime objects; an empty list gives an object column, on which the .dt
\* accessor raises AttributeError.
is_datetimelike(admission_dates) == Len(admission_dates) > 0

\* generate_test_data(n) called at date `now` with the seeded stream:
\* [error, df].  A negative size makes np.random.randint raise ValueError.
generate_test_data(n, stream, now) ==
    IF n < 0 THEN [error |-> "ValueError", df |-> <<>>]
    ELSE LET admission_dates == [i \in 1..n |-> now - admission_offset(stream[i].days)]
         IN  IF ~is_datetimelike(admission_dates)
             THEN [error |-> "AttributeError", df |-> <<>>]
             ELSE [error |-> "none",
                   df |-> [i \in 1..n |-> patient_record(i, stream[i], now)]]

\* ------------------------------------------------- the generator on its own

NoMetrics == [total |-> 0, critical |-> 0, attention |-> 0, stable |-> 0,
              avg_age |-> "", avg_stay |-> ""]

\* The inputs of generate_test_data: a count, a seeded stream and the date
\* of the first call; nothing has been called.
GenInit ==
    /\ clock \in FirstDays
    /\ n_patients \in (0 - 1)..MaxPatients
    /\ tape \in Tapes(n_patients, GenRowDraws)
    /\ today = 0
    /\ df = <<>>
    /\ error = "none"
    /\ selected_departments = {}
    /\ selected_statuses = {}
    /\ age_range = <<0, 0>>
    /\ filtered_df = <<>>
    /\ metrics = NoMetrics

\* One call of generate_test_data(n_patients).
Call ==
    \E r \in {generate_test_data(n_patients, tape, clock)} :
        /\ today' = clock
        /\ df' = r.df
        /\ error' = r.error
        /\ UNCHANGED <<clock, n_patients, tape, selected_departments,
                       selected_statuses, age_range, filtered_df, metrics>>

\* Midnight passes.
Tick ==
    /\ \E first \in FirstDays : clock < first + MaxDay
    /\ clock' = clock + 1
    /\ UNCHANGED <<n_patients, tape, today, df, error, selected_departments,
                   selected_statuses, age_range, filtered_df, metrics>>

GenNext == Call \/ Tick

SpecGen == GenInit /\ [][GenNext]_vars

\* ------------------------------------------------------------ the script

\* sorted(df[column].unique()): the options a multiselect offers.
department_options(t) == {t[i].department : i \in DOMAIN t}
status_options(t) == {t[i].status : i \in DOMAIN t}

\* int(df['age'].min()), int(df['age'].max()) of a non-empty table.
age_min(t) == CHOOSE a \in {t[i].age : i \in DOMAIN t} :
                  \A j \in DOMAIN t : a <= t[j].age
age_max(t) == CHOOSE a \in {t[i].age : i \in DOMAIN t} :
                  \A j \in DOMAIN t : a >= t[j].age

\* The slider's initial value: the observed minimum and maximum age.
default_age_range(t) == <<age_min(t), age_max(t)>>

\* if selected_departments: filtered_df[department.isin(selected_departments)]
filter_departments(t, departments) ==
    IF departments # {}
    THEN SelectSeq(t, LAMBDA r : r.department \in departments)
    ELSE t

\* if selected_statuses: filtered_df[status.isin(selected_statuses)]
filter_statuses(t, statuses) ==
    IF statuses # {}
    THEN SelectSeq(t, LAMBDA r : r.status \in statuses)
    ELSE t

age_mask_exclusive(r, range) == r.age > range[1] /\ r.age < range[2]

\* (age >= age_range[0]) & (age <= age_range[1])
age_mask(r, range) == r.age >= range[1] /\ r.age <= range[2]

filter_age(t, range) == SelectSeq(t, LAMBDA r : age_mask(r, range))

apply_filters_drop_first(t, departments, statuses, range) ==
    LET kept == filter_age(filter_statuses(filter_departments(t, departments),
                                           statuses), range)
    IN  IF kept = <<>> THEN kept ELSE Tail(kept)

\* The three filter steps, in the script's order.
apply_filters(t, departments, statuses, range) ==
    filter_age(filter_statuses(filter_departments(t, departments), statuses), range)

count_status_stable(t, status) == Len(SelectSeq(t, LAMBDA r : r.status = "Stable"))

\* len(filtered_df[filtered_df[status] == value])
count_status(t, status) == Len(SelectSeq(t, LAMBDA r : r.status = status))

RECURSIVE Sum(_)
Sum(values) == IF values = <<>> THEN 0 ELSE Head(values) + Sum(Tail(values))

mean_dividing(values) ==
    IF Len(values) = 0 THEN [kind |-> "ZeroDivisionError"]
    ELSE [kind |-> "value", num |-> Sum(values), den |-> Len(values)]

\* Series.mean(): NaN for an empty column, else sum / count.
mean(values) ==
    IF Len(values) = 0 THEN [kind |-> "nan"]
    ELSE [kind |-> "value", num |-> Sum(values), den |-> Len(values)]

\* f"{x:.1f}" of a non-negative mean: "nan" for NaN, else one decimal,
\* rounded half to even.
format_1f(m) ==
    IF m.kind = "nan" THEN "nan"
    ELSE LET f == (10 * m.num) \div m.den
             twice == 2 * ((10 * m.num) % m.den)
             t == IF twice < m.den THEN f
                  ELSE IF twice > m.den THEN f + 1
                  ELSE IF f % 2 = 0 THEN f ELSE f + 1
         IN  ToString(t \div 10) \o "." \o ToString(t % 10)

\* The six st.metric indicators of a filtered table: [error, metrics].
summary(t) ==
    LET avg_age == mean([i \in DOMAIN t |-> t[i].age])
        avg_stay == mean([i \in DOMAIN t |-> t[i].length_of_stay])
    IN  IF avg_age.kind \notin {"nan", "value"}
        THEN [error |-> avg_age.kind, metrics |-> NoMetrics]
        ELSE [error |-> "none",
              metrics |-> [total     |-> Len(t),
                           critical  |-> count_status(t, "Critical"),
                           attention |-> count_status(t, "Needs Attention"),
                           stable    |-> count_status(t, "Stable"),
                           avg_age   |-> format_1f(avg_age),
                           avg_stay  |-> format_1f(avg_stay) \o " days"]]

\* The positions of the age slider that are explored: its two ends.
slider_stops(t) == {age_min(t), age_max(t)}

Rerun_filter_in_place(departments, statuses, range) ==
    \E g \in {generate_test_data(n_patients, tape, clock)} :
    \E f \in {apply_filters(g.df, departments, statuses, range)} :
    \E m \in {summary(f)} :
        /\ today' = clock
        /\ df' = f
        /\ error' = (IF g.error # "none" THEN g.error ELSE m.error)
        /\ filtered_df' = f
        /\ metrics' = m.metrics
        /\ selected_departments' = departments
        /\ selected_statuses' = statuses
        /\ age_range' = range
        /\ UNCHANGED <<clock, n_patients, tape>>

\* One execution of the script with the given widget values: lines 75
\* (the table), 106-115 (the filter) and 118-136 (the metrics).
Rerun(departments, statuses, range) ==
    \E g \in {generate_test_data(n_patients, tape, clock)} :
    \E f \in {apply_filters(g.df, departments, statuses, range)} :
    \E m \in {summary(f)} :
        /\ today' = clock
        /\ df' = g.df
        /\ error' = (IF g.error # "none" THEN g.error ELSE m.error)
        /\ filtered_df' = f
        /\ metrics' = m.metrics
        /\ selected_departments' = departments
        /\ selected_statuses' = statuses
        /\ age_range' = range
        /\ UNCHANGED <<clock, n_patients, tape>>

\* Session start: the first execution, with nothing selected and the slider
\* at its initial value.
Init ==
    /\ clock \in FirstDays
    /\ n_patients \in 1..MaxPatients
    /\ tape \in Tapes(n_patients, SessionRowDraws)
    /\ today = clock
    /\ selected_departments = {}
    /\ selected_statuses = {}
    /\ \E g \in {generate_test_data(n_patients, tape, clock)} :
       \E f \in {apply_filters(g.df, {}, {}, default_age_range(g.df))} :
       \E m \in {summary(f)} :
           /\ df = g.df
           /\ age_range = default_age_range(g.df)
           /\ error = (IF g.error # "none" THEN g.error ELSE m.error)
           /\ filtered_df = f
           /\ metrics = m.metrics

\* The user changes the department multiselect.
SelectDepartments ==
    \E departments \in SUBSET department_options(df) :
        /\ departments # selected_departments
        /\ Rerun(departments, selected_statuses, age_range)

\* The user changes the status multiselect.
SelectStatuses ==
    \E statuses \in SUBSET status_options(df) :
        /\ statuses # selected_statuses
        /\ Rerun(selected_departments, statuses, age_range)

\* The user moves the age slider.
SlideAge ==
    \E lo \in slider_stops(df), hi \in slider_stops(df) :
        /\ lo <= hi
        /\ <<lo, hi>> # age_range
        /\ Rerun(selected_departments, selected_statuses, <<lo, hi>>)

Next == SelectDepartments \/ SelectStatuses \/ SlideAge \/ Tick

Spec == Init /\ [][Next]_vars

\* ------------------------------------------------------------- properties

\* A row satisfies the active predicates of the current widget values.
Matches(r) ==
    /\ selected_departments = {} \/ r.department \in selected_departments
    /\ selected_statuses = {} \/ r.status \in selected_statuses
    /\ age_range[1] <= r.age
    /\ r.age <= age_range[2]

\* The table with the admission-date column blanked.
WithoutAdmission(t) == [i \in DOMAIN t |-> [t[i] EXCEPT !.admission_date = ""]]

\* C1: the filtered table holds exactly the rows of the source table that
\* satisfy every active predicate (department in the selection or selection
\* empty, status likewise, lo <= age <= hi inclusive): none dropped, none
\* kept wrongly, none repeated, in the source's order.
C1_FilterExact ==
    /\ \A i \in DOMAIN df :
           Matches(df[i]) <=> (\E j \in DOMAIN filtered_df : filtered_df[j] = df[i])
    /\ \A j \in DOMAIN filtered_df : \E i \in DOMAIN df : df[i] = filtered_df[j]
    /\ Len(filtered_df) = Cardinality({i \in DOMAIN df : Matches(df[i])})
    /\ \A j, k \in DOMAIN filtered_df :
           j < k => filtered_df[j].patient_id # filtered_df[k].patient_id
    /\ (selected_departments = {} /\ selected_statuses = {}) =>
           Len(filtered_df) =
               Cardinality({i \in DOMAIN df :
                               age_range[1] <= df[i].age /\ df[i].age <= age_range[2]})

\* C1 witness: both selections are active and the filter kept one row and
\* dropped another.
C1_Witness ==
    /\ selected_departments # {}
    /\ selected_statuses # {}
    /\ Len(filtered_df) > 0
    /\ Len(filtered_df) < Len(df)
    /\ age_range # default_age_range(df)

\* C2 (as stated): any two calls of generate_test_data(N), whatever the
\* wall-clock time of each, return identical tables in every column.
C2_SameTableAtAnyTime == [][today # 0 => df' = df]_vars

\* C2 (amended): two calls return tables identical in every column except
\* the admission date, length of stay included; the admission dates, and so
\* the whole tables, are identical too when both calls run on the same date.
C2_SameTableButAdmission ==
    [][today # 0 =>
          /\ WithoutAdmission(df') = WithoutAdmission(df)
          /\ today' = today => df' = df]_vars

\* C2 witness: a call on a later date has returned a table that differs
\* from the table a call on the first date returns, in the admission dates
\* only.
C2_Witness ==
    \E first \in FirstDays :
        /\ today > first
        /\ Len(df) > 0
        /\ df # generate_test_data(n_patients, tape, first).df
        /\ WithoutAdmission(df) =
               WithoutAdmission(generate_test_data(n_patients, tape, first).df)

\* C3: every Critical record has oxygen_level in [80,92), temperature in
\* [38.0,40.0] and heart_rate in [100,140).
C3_CriticalVitals ==
    \A i \in DOMAIN df :
        df[i].status = "Critical" =>
            /\ df[i].oxygen_level \in 80..91
            /\ df[i].temperature \in 380..400
            /\ df[i].heart_rate \in 100..139

\* C3 witness: a Critical record whose baseline oxygen draw lay outside the
\* range and whose overwritten values sit at the upper ends.
C3_Witness ==
    \E i \in DOMAIN df :
        /\ df[i].status = "Critical"
        /\ baseline_vitals(tape[i]).oxygen_level \notin 80..91
        /\ df[i].oxygen_level = 91
        /\ df[i].temperature = 400
        /\ df[i].heart_rate = 139

\* C4: every Needs Attention record has oxygen_level in [92,96),
\* temperature in [37.0,38.0], heart_rate in [90,110), systolic in [110,150)
\* and diastolic in [70,95).
C4_AttentionVitals ==
    \A i \in DOMAIN df :
        df[i].status = "Needs Attention" =>
            /\ df[i].oxygen_level \in 92..95
            /\ df[i].temperature \in 370..380
            /\ df[i].heart_rate \in 90..109
            /\ df[i].systolic \in 110..149
            /\ df[i].diastolic \in 70..94

\* C4 witness: a Needs Attention record whose baseline temperature draw lay
\* outside the range and whose overwritten values sit at the upper ends.
C4_Witness ==
    \E i \in DOMAIN df :
        /\ df[i].status = "Needs Attention"
        /\ baseline_vitals(tape[i]).temperature \notin 370..380
        /\ df[i].temperature = 380
        /\ df[i].oxygen_level = 95
        /\ df[i].systolic = 149

\* C5: when the filter leaves no row the script still runs to its end, the
\* total and the three status counts are 0, and the two means are shown as
\* a placeholder (not-a-number or zero).
C5_EmptyAggregates ==
    Len(filtered_df) = 0 =>
        /\ error = "none"
        /\ metrics.total = 0
        /\ metrics.critical = 0
        /\ metrics.attention = 0
        /\ metrics.stable = 0
        /\ metrics.avg_age \in {"nan", "0.0"}
        /\ metrics.avg_stay \in {"nan days", "0.0 days"}

\* C5 witness: a department and a status that never co-occur are selected
\* and no row is left.
C5_Witness ==
    /\ selected_departments # {}
    /\ selected_statuses # {}
    /\ age_range = default_age_range(df)
    /\ Len(filtered_df) = 0
    /\ metrics.avg_age = "nan"

\* C6 (as stated): for every N <= 0 a call of generate_test_data(N) returns
\* an empty table and raises nothing.
C6_EmptyTableForNonPositive ==
    (today # 0 /\ n_patients <= 0) => (error = "none" /\ df = <<>>)

\* C7 (as stated): across the interactions of a session the source table
\* stays the table generated at session start.
C7_SourceNeverChanges == [][df' = df]_vars

\* C7 (amended): across the interactions of a session the source table keeps
\* every column except the admission date, and keeps that one too whenever
\* the script runs again on the date of its previous run; no filter changes,
\* adds or removes a row of it.
C7_SourceKeptButAdmission ==
    [][/\ WithoutAdmission(df') = WithoutAdmission(df)
       /\ today' = today => df' = df]_vars

\* C7 witness: after midnight the script ran again with a filter that drops
\* a row, and its source table differs from the table of session start in
\* the admission dates only.
C7_Witness ==
    \E first \in FirstDays :
        /\ today > first
        /\ selected_statuses # {}
        /\ Len(filtered_df) < Len(df)
        /\ df # generate_test_data(n_patients, tape, first).df
        /\ WithoutAdmission(df) =
               WithoutAdmission(generate_test_data(n_patients, tape, first).df)

\* C8: filtering the filtered table again with the same widget values gives
\* the filtered table.
C8_Idempotent ==
    apply_filters(filtered_df, selected_departments, selected_statuses, age_range)
        = filtered_df

\* C8 witness: a filter with all three predicates active that keeps one row
\* and drops another.
C8_Witness ==
    /\ selected_departments # {}
    /\ selected_statuses # {}
    /\ age_range[1] = age_range[2]
    /\ Len(filtered_df) > 0
    /\ Len(filtered_df) < Len(df)

\* C9: with nothing selected and the slider at its initial value (the
\* observed minimum and maximum age, within 18..90) the displayed total is N
\* and the three status counts sum to N.
C9_TotalsWithoutFilter ==
    (/\ selected_departments = {}
     /\ selected_statuses = {}
     /\ age_range = default_age_range(df)) =>
        /\ 18 <= age_range[1]
        /\ age_range[2] <= 90
        /\ metrics.total = n_patients
        /\ metrics.critical + metrics.attention + metrics.stable = n_patients

\* C9 witness: an unfiltered table of two patients of different ages, one
\* Critical and one Needs Attention.
C9_Witness ==
    /\ selected_departments = {}
    /\ selected_statuses = {}
    /\ age_range = <<18, 90>>
    /\ n_patients = 2
    /\ metrics.critical = 1
    /\ metrics.attention = 1

\* C10: every record's blood-pressure string is "<systolic>/<diastolic>" of
\* its final systolic and diastolic values, and its length of stay is the
\* number of days from its admission date to the generation date, between 1
\* and 30.
C10_DerivedFromFinal ==
    \A i \in DOMAIN df :
        /\ df[i].blood_pressure =
               ToString(df[i].systolic) \o "/" \o ToString(df[i].diastolic)
        /\ df[i].systolic = final_vitals(df[i].status, tape[i]).systolic
        /\ df[i].diastolic = final_vitals(df[i].status, tape[i]).diastolic
        /\ df[i].length_of_stay \in 1..30
        /\ df[i].admission_date = strftime(today - df[i].length_of_stay)

\* C10 witness: a Critical record whose blood pressure was overwritten and
\* that was admitted 30 days before the generation date.
C10_Witness ==
    \E i \in DOMAIN df :
        /\ df[i].status = "Critical"
        /\ df[i].systolic # baseline_vitals(tape[i]).systolic
        /\ df[i].blood_pressure = "199/69"
        /\ df[i].length_of_stay = 30

==========================================================================
